---- MODULE Spec2Model ----
(***************************************************************************)
(* Printed text scanner: the display-to-source ROI mapping of ImageCanvas *)
(* (main.py), the preprocessing / recognition functions of ocr_utils.py,  *)
(* CameraCapture (camera_utils.py), the image handlers of TextScannerApp  *)
(* and the capture thread with the GUI thread that starts and stops it,   *)
(* as state machines over small input domains.                            *)
(*                                                                         *)
(* Python values are modelled as records: None is the record NoneVal, an  *)
(* image is [h, w, ch, ops] (numpy shape plus the list of OpenCV          *)
(* primitives applied to the pixel buffer so far), a string is a sequence *)
(* of one-character strings.  A call ends either by returning a value     *)
(* (Return) or by an exception leaving the function (Raise).              *)
(***************************************************************************)
EXTENDS Integers, Sequences, FiniteSets, TLC

VARIABLES
    canvas_image,     \* ImageCanvas.image: NoneVal or an image
    display_pixmap,   \* ImageCanvas.display_pixmap: NoneVal or [w, h]
    roi_rect,         \* ImageCanvas.roi_rect: NoneVal or [x, y, w, h]
    roi_scaled,       \* locals x, y, w, h of get_roi_in_image_coords before the clamp
    roi_result,       \* outcome of the last get_roi_in_image_coords call
    call,             \* the last ocr_utils call: its name and arguments
    result,           \* outcome of the last ocr_utils call
    engine,           \* what pytesseract did during the last call
    engine_calls,     \* number of pytesseract invocations so far
    stdout,           \* what the last call printed
    px_call,          \* a preprocess_image call on a pixel buffer: [image, mode, threshold]
    px_denoised,      \* its local `denoised`
    px_result,        \* the buffer it returned
    camera,           \* CameraCapture.camera: NoneVal or the cv2.VideoCapture [opened]
    is_open,          \* CameraCapture.is_open
    frame_count,      \* CameraCapture.frame_count
    device_reads,     \* number of camera.read() calls made so far
    good_reads,       \* successful reads since construction or the last reset
    released,         \* release() has been called
    cap_result,       \* the last CameraCapture method called and what it returned
    current_image,    \* TextScannerApp.current_image: NoneVal or an image
    last_source,      \* the image last loaded or captured
    roi_start,        \* ImageCanvas.roi_start: NoneVal or a point [x, y]
    roi_active,       \* ImageCanvas.roi_active
    status,           \* text of the status label
    text_display,     \* text of the result pane
    ocr_roi_image,    \* local roi_image of the handler that ran last, NoneVal if it made no crop
    overlay_pc,       \* where show_overlay is: "idle", or "events" inside processEvents()
    app_error,        \* NoneVal, or the exception that left a handler
    camera_active,    \* TextScannerApp.camera_active
    camera_thread,    \* TextScannerApp.camera_thread: NoneVal or [pc, running, camera]
    gui_pc,           \* the GUI thread: "idle" in its event loop, "waiting" in stop()'s wait()
    stop_requested,   \* stop() has been called on the current thread
    pending_frames,   \* frame_ready signals queued for the GUI thread
    pending_error     \* an error_signal is queued for the GUI thread

mapperVars == <<canvas_image, display_pixmap, roi_rect, roi_scaled, roi_result>>
ocrVars == <<call, result, engine, engine_calls, stdout>>
pixelVars == <<px_call, px_denoised, px_result>>
captureVars == <<camera, is_open, frame_count, device_reads, good_reads, released,
                 cap_result>>

appVars == <<current_image, last_source, roi_start, roi_active, status, text_display,
             ocr_roi_image, overlay_pc, app_error>>

cameraVars == <<camera_active, camera_thread, gui_pc, stop_requested, pending_frames,
                pending_error>>

vars == <<mapperVars, ocrVars, pixelVars, captureVars, appVars, cameraVars>>

----------------------------------------------------------------------------
(* Bounds of the model *)

\* largest source image width / height of the mapper inputs
MaxSrc == 3
\* largest display pixmap width / height of the mapper inputs
MaxDisp == 3
\* display rectangles start at -MaxNeg .. MaxPos
MaxNeg == 2
MaxPos == 4
\* display rectangles are 0 .. MaxLen wide and high
MaxLen == 4

----------------------------------------------------------------------------
(* Python values *)

NoneVal == [none |-> TRUE]
NoCall == [kind |-> "nocall"]
Return(v) == [kind |-> "return", val |-> v]
Raise(e) == [kind |-> "raise", exc |-> e]

Max(a, b) == IF a >= b THEN a ELSE b
Min(a, b) == IF a <= b THEN a ELSE b
Abs(a) == IF a >= 0 THEN a ELSE -a

BlankImage(h, w, ch) == [h |-> h, w |-> w, ch |-> ch, ops |-> <<>>]

----------------------------------------------------------------------------
(* ImageCanvas.get_roi_in_image_coords (main.py 155-180) *)

\* int(v * (img / disp)) with floor division: differs from int() for v < 0
FloorScale(v, img, disp) == (v * img) \div disp

\* the scale inverted: disp / img in place of img / disp
InverseScale(v, img, disp) ==
    IF v >= 0 THEN (v * disp) \div img ELSE -(((-v) * disp) \div img)

\* int(v * scale) with scale = img / disp: Python's int() truncates toward
\* zero.  The float product equals the exact quotient v*img/disp for all
\* |v|, img, disp <= 10 (the first difference is 11 * (15 / 11), which
\* is 14.999999999999998), so within the bounds the exact quotient is used.
ScaleCoord(v, img, disp) ==
    IF v >= 0 THEN (v * img) \div disp ELSE -(((-v) * img) \div disp)

\* lines 169-172: the four coordinates before clamping
ScaleRect(r, img_w, img_h, display_w, display_h) ==
    [x |-> ScaleCoord(r.x, img_w, display_w),
     y |-> ScaleCoord(r.y, img_h, display_h),
     w |-> ScaleCoord(r.w, img_w, display_w),
     h |-> ScaleCoord(r.h, img_h, display_h)]

\* the clamp without the lower limit 1 on the width and height
ClampRectNoMin(s, img_w, img_h) ==
    LET x == Max(0, Min(s.x, img_w - 1))
        y == Max(0, Min(s.y, img_h - 1))
    IN  [x |-> x, y |-> y, w |-> Min(s.w, img_w - x), h |-> Min(s.h, img_h - y)]

\* lines 175-178: clamp to the image boundaries
ClampRect(s, img_w, img_h) ==
    LET x == Max(0, Min(s.x, img_w - 1))
        y == Max(0, Min(s.y, img_h - 1))
    IN  [x |-> x, y |-> y,
         w |-> Max(1, Min(s.w, img_w - x)),
         h |-> Max(1, Min(s.h, img_h - y))]

\* the whole function: None when nothing is selected or shown, an uncaught
\* ZeroDivisionError from lines 165-166 when the pixmap has a zero dimension
RoiInImageCoords(rect, image, pixmap) ==
    IF rect = NoneVal \/ image = NoneVal \/ pixmap = NoneVal
    THEN Return(NoneVal)
    ELSE IF pixmap.w = 0 \/ pixmap.h = 0
    THEN Raise("ZeroDivisionError")
    ELSE Return(ClampRect(ScaleRect(rect, image.w, image.h, pixmap.w, pixmap.h),
                          image.w, image.h))

\* the locals x, y, w, h after lines 169-172, when the function gets there
RoiScaled(rect, image, pixmap) ==
    IF rect = NoneVal \/ image = NoneVal \/ pixmap = NoneVal
       \/ pixmap.w = 0 \/ pixmap.h = 0
    THEN NoneVal
    ELSE ScaleRect(rect, image.w, image.h, pixmap.w, pixmap.h)

DisplayRects ==
    [x : (-MaxNeg)..MaxPos, y : (-MaxNeg)..MaxPos, w : 0..MaxLen, h : 0..MaxLen]
SourceImages == {BlankImage(h, w, 3) : h \in 1..MaxSrc, w \in 1..MaxSrc}
Pixmaps == [w : 0..MaxDisp, h : 0..MaxDisp]

----------------------------------------------------------------------------
(* ocr_utils.py: values *)

\* images of the single-call specification are up to MaxDim x MaxDim
MaxDim == 2
\* crop rectangles start at -1 .. MaxRoi and are 0 .. MaxRoi wide and high
MaxRoi == 1
\* the engine's structured output has at most MaxCands candidates
MaxCands == 4
\* the engine's plain text has at most MaxText characters
MaxText == 1
\* images of the call-sequence specification are up to SeqDim x SeqDim
SeqDim == 1
\* the call-sequence specification stops counting at MaxCalls engine calls
MaxCalls == 2

SeqUpTo(S, n) == UNION {[1..k -> S] : k \in 0..n}

Modes == {"Grayscale", "Threshold", "Adaptive Threshold", "Morphological"}
UnknownModes == {"Otsu"}
\* the spin box's default (main.py) and its maximum
Thresholds == {127, 255}

Op(name, args) == [op |-> name, args |-> args]

\* image.size == 0 of a numpy array, or no image at all (lines 25, 74, 101)
IsEmpty(image) == image = NoneVal \/ image.h * image.w * image.ch = 0

\* one more primitive applied to the pixel buffer of image
Apply(image, o) == [image EXCEPT !.ops = Append(@, o)]

\* str.strip(): drop leading and trailing whitespace
Whitespace == {" "}
RECURSIVE LStrip(_)
LStrip(s) == IF s # <<>> /\ Head(s) \in Whitespace THEN LStrip(Tail(s)) ELSE s
RECURSIVE RStrip(_)
RStrip(s) ==
    IF s # <<>> /\ s[Len(s)] \in Whitespace
    THEN RStrip(SubSeq(s, 1, Len(s) - 1)) ELSE s
Strip(s) == RStrip(LStrip(s))

\* len(range(start, stop)) of the slice a[start:stop] of an axis of length n
SliceStart(i, n) == IF i < 0 THEN Max(i + n, 0) ELSE Min(i, n)
SliceLen(start, stop, n) == Max(0, SliceStart(stop, n) - SliceStart(start, n))

\* image[y:y+h, x:x+w] (lines 143; main.py 385)
Crop(image, roi) ==
    [h |-> SliceLen(roi.y, roi.y + roi.h, image.h),
     w |-> SliceLen(roi.x, roi.x + roi.w, image.w),
     ch |-> image.ch,
     ops |-> Append(image.ops, Op("slice", <<roi.y, roi.y + roi.h, roi.x, roi.x + roi.w>>))]

\* what a function did: its outcome, the engine call it made (NoCall when it
\* made none) and what it printed
Did(res, eng, out) == [result |-> res, engine |-> eng, stdout |-> out]

ErrorPrefix == <<"E", "r", "r", "o", "r", ":", " ">>

----------------------------------------------------------------------------
(* ocr_utils.preprocess_image (lines 13-61) *)

\* lines 29-35: grayscale conversion of a 3-channel image, then median blur
Denoised(image) ==
    LET gray == IF image.ch = 3
                THEN [Apply(image, Op("cvtColor", <<>>)) EXCEPT !.ch = 1]
                ELSE image
    IN  Apply(gray, Op("medianBlur", <<5>>))

\* cv2.threshold with the cutoff and the "on" value exchanged
BinarySwapped(denoised, threshold) == Apply(denoised, Op("threshold", <<255, threshold>>))

\* lines 42 and 55: cv2.threshold(denoised, threshold, 255, cv2.THRESH_BINARY)
Binary(denoised, threshold) == Apply(denoised, Op("threshold", <<threshold, 255>>))

\* the function with the threshold argument passed on as the constant of the
\* adaptive threshold
PreprocessAdaptiveByThreshold(image, mode, threshold) ==
    IF IsEmpty(image) THEN Return(image)
    ELSE LET denoised == Denoised(image) IN
         CASE mode = "Grayscale" -> Return(denoised)
           [] mode = "Threshold" -> Return(Binary(denoised, threshold))
           [] mode = "Adaptive Threshold" ->
                Return(Apply(denoised, Op("adaptiveThreshold", <<255, 11, threshold>>)))
           [] mode = "Morphological" ->
                Return(Apply(Apply(Binary(denoised, threshold),
                                   Op("MORPH_CLOSE", <<3, 3, 1>>)),
                             Op("MORPH_OPEN", <<3, 3, 1>>)))
           [] OTHER -> Return(denoised)

PreprocessImage(image, mode, threshold) ==
    IF IsEmpty(image) THEN Return(image)
    ELSE LET denoised == Denoised(image) IN
         CASE mode = "Grayscale" -> Return(denoised)
           [] mode = "Threshold" -> Return(Binary(denoised, threshold))
           [] mode = "Adaptive Threshold" ->
                Return(Apply(denoised, Op("adaptiveThreshold", <<255, 11, 2>>)))
           [] mode = "Morphological" ->
                Return(Apply(Apply(Binary(denoised, threshold),
                                   Op("MORPH_CLOSE", <<3, 3, 1>>)),
                             Op("MORPH_OPEN", <<3, 3, 1>>)))
           [] OTHER -> Return(denoised)

----------------------------------------------------------------------------
(* ocr_utils.extract_text_with_boxes (lines 64-88) *)

\* the function without the guard of lines 74-75
ExtractTextUnguarded(image, out) ==
    IF out.kind = "raise"
    THEN Did(Return(ErrorPrefix \o out.msg), Op("image_to_string", image),
             <<"Error during OCR">>)
    ELSE Did(Return(Strip(out.val)), Op("image_to_string", image), <<>>)

\* out is what pytesseract.image_to_string does if it is called
ExtractTextWithBoxes(image, out) ==
    IF IsEmpty(image) THEN Did(Return(<<>>), NoCall, <<>>)
    ELSE IF out.kind = "raise"
    THEN Did(Return(ErrorPrefix \o out.msg), Op("image_to_string", image),
             <<"Error during OCR">>)
    ELSE Did(Return(Strip(out.val)), Op("image_to_string", image), <<>>)

----------------------------------------------------------------------------
(* ocr_utils.get_text_boxes (lines 91-126) *)

\* the tuple with x and y exchanged
BoxYX(c) == <<c.top, c.left, c.width, c.height, c.conf>>

\* lines 114-120: the tuple appended for a kept candidate
Box(c) == <<c.left, c.top, c.width, c.height, c.conf>>

\* the filter with >= in place of > on line 113
RECURSIVE KeepNonNegative(_)
KeepNonNegative(data) ==
    IF data = <<>> THEN <<>>
    ELSE IF Head(data).conf >= 0
    THEN <<Box(Head(data))>> \o KeepNonNegative(Tail(data))
    ELSE KeepNonNegative(Tail(data))

RECURSIVE KeepConfident(_)
\* lines 110-120: the loop over the engine's candidates
KeepConfident(data) ==
    IF data = <<>> THEN <<>>
    ELSE IF Head(data).conf > 0
    THEN <<Box(Head(data))>> \o KeepConfident(Tail(data))
    ELSE KeepConfident(Tail(data))

\* the function without its try/except
GetTextBoxesUncaught(image, out) ==
    IF IsEmpty(image) THEN Did(Return(<<>>), NoCall, <<>>)
    ELSE IF out.kind = "raise"
    THEN Did(Raise(out.exc), Op("image_to_data", image), <<>>)
    ELSE Did(Return(KeepConfident(out.val)), Op("image_to_data", image), <<>>)

\* out is what pytesseract.image_to_data does if it is called
GetTextBoxes(image, out) ==
    IF IsEmpty(image) THEN Did(Return(<<>>), NoCall, <<>>)
    ELSE IF out.kind = "raise"
    THEN Did(Return(<<>>), Op("image_to_data", image), <<"Error getting text boxes">>)
    ELSE Did(Return(KeepConfident(out.val)), Op("image_to_data", image), <<>>)

----------------------------------------------------------------------------
(* ocr_utils.extract_text_from_roi (lines 129-149) *)

ExtractTextFromRoi(image, roi, mode, threshold, out) ==
    IF image = NoneVal THEN Did(Raise("TypeError"), NoCall, <<>>)
    ELSE LET roi_image == Crop(image, roi) IN
         IF roi_image.h * roi_image.w * roi_image.ch = 0
         THEN Did(Return(<<>>), NoCall, <<>>)
         ELSE ExtractTextWithBoxes(PreprocessImage(roi_image, mode, threshold).val, out)

\* the full-image path preprocess_image -> extract_text_with_boxes, as made by
\* TextScannerApp.ocr_full_image (main.py 366-367)
FullImagePath(image, mode, threshold, out) ==
    ExtractTextWithBoxes(PreprocessImage(image, mode, threshold).val, out)

----------------------------------------------------------------------------
(* Inputs *)

ImagesUpTo(n) == {BlankImage(h, w, ch) : h \in 0..n, w \in 0..n, ch \in {1, 3}}

\* pytesseract.image_to_string: a string, or an exception
EngineText(n) ==
    {Return(t) : t \in SeqUpTo({" ", "a"}, n)}
        \cup {[kind |-> "raise", exc |-> "TesseractError", msg |-> <<"b", "a", "d">>]}

Boxes == {[left |-> 0, top |-> 1, width |-> 2, height |-> 3],
          [left |-> 4, top |-> 0, width |-> 1, height |-> 1]}
Confs == {-1, 0, 5, 90}
\* a row of pytesseract's structured output; rejected rows carry no text
Candidates ==
    {[left |-> b.left, top |-> b.top, width |-> b.width, height |-> b.height,
      conf |-> c, text |-> IF c > 0 THEN <<"a">> ELSE <<>>] : b \in Boxes, c \in Confs}

\* pytesseract.image_to_data: a table of candidates, or an exception
EngineData(n) ==
    {Return(d) : d \in SeqUpTo(Candidates, n)}
        \cup {[kind |-> "raise", exc |-> "TesseractError", msg |-> <<"b", "a", "d">>]}

Rois(n) == [x : (-1)..n, y : (-1)..n, w : 0..n, h : 0..n]

AllModes == Modes \cup UnknownModes

CallsOver(images, texts, datas, rois, thresholds) ==
    [op : {"preprocess_image"}, image : images, mode : AllModes, threshold : thresholds]
    \cup [op : {"extract_text_with_boxes"}, image : images, out : texts]
    \cup [op : {"get_text_boxes"}, image : images, out : datas]
    \cup [op : {"extract_text_from_roi"}, image : images, roi : rois,
          mode : AllModes, threshold : thresholds, out : texts]
    \cup [op : {"full_image_path"}, image : images,
          mode : AllModes, threshold : thresholds, out : texts]

\* the calls of the single-call specification
Calls ==
    CallsOver(ImagesUpTo(MaxDim) \cup {NoneVal}, EngineText(MaxText),
              EngineData(MaxCands), Rois(MaxRoi), Thresholds)

\* the calls of the call-sequence specification: colour images up to
\* SeqDim x SeqDim, a crop of no width and a crop of one pixel
SeqImages == {BlankImage(h, w, 3) : h \in 0..SeqDim, w \in 0..SeqDim}
SeqRois == {[x |-> 0, y |-> 0, w |-> w, h |-> 1] : w \in 0..1}
SeqCalls ==
    CallsOver(SeqImages \cup {NoneVal}, EngineText(1), EngineData(1), SeqRois, {127})

OcrIdle ==
    /\ call = NoCall
    /\ result = NoCall
    /\ engine = NoCall
    /\ engine_calls = 0
    /\ stdout = <<>>

PixelIdle ==
    /\ px_call = NoCall
    /\ px_denoised = NoneVal
    /\ px_result = NoCall

\* no CameraCapture has been constructed
CaptureIdle ==
    /\ camera = NoneVal
    /\ is_open = FALSE
    /\ frame_count = 0
    /\ device_reads = 0
    /\ good_reads = 0
    /\ released = FALSE
    /\ cap_result = NoCall

\* TextScannerApp.__init__ and ImageCanvas.__init__ (main.py 76-80, 198-204)
AppIdle ==
    /\ current_image = NoneVal
    /\ last_source = NoneVal
    /\ roi_start = NoneVal
    /\ roi_active = FALSE
    /\ status = "Ready"
    /\ text_display = <<>>
    /\ ocr_roi_image = NoneVal
    /\ overlay_pc = "idle"
    /\ app_error = NoneVal

\* no camera has been started (main.py 203, 231)
CameraIdle ==
    /\ camera_active = FALSE
    /\ camera_thread = NoneVal
    /\ gui_pc = "idle"
    /\ stop_requested = FALSE
    /\ pending_frames = 0
    /\ pending_error = FALSE

\* the parts of the state that the mapper and the ocr_utils calls leave alone
restVars == <<pixelVars, captureVars, appVars, cameraVars>>
RestIdle == PixelIdle /\ CaptureIdle /\ AppIdle /\ CameraIdle

\* a canvas with some selection, image and scaled pixmap, before any query
InitMapper ==
    /\ roi_rect \in DisplayRects \cup {NoneVal}
    /\ canvas_image \in SourceImages \cup {NoneVal}
    /\ display_pixmap \in Pixmaps \cup {NoneVal}
    /\ roi_scaled = NoneVal
    /\ roi_result = NoCall
    /\ OcrIdle
    /\ RestIdle

get_roi_in_image_coords ==
    /\ roi_result' = RoiInImageCoords(roi_rect, canvas_image, display_pixmap)
    /\ roi_scaled' = RoiScaled(roi_rect, canvas_image, display_pixmap)
    /\ UNCHANGED <<canvas_image, display_pixmap, roi_rect>>
    /\ UNCHANGED ocrVars
    /\ UNCHANGED restVars

NextMapper == get_roi_in_image_coords

SpecMapper == InitMapper /\ [][NextMapper]_vars

----------------------------------------------------------------------------
(* Single calls of ocr_utils: the arguments and the engine's behaviour are  *)
(* drawn at the start, the call is then made                                *)

MapperIdle ==
    /\ roi_rect = NoneVal
    /\ canvas_image = NoneVal
    /\ display_pixmap = NoneVal
    /\ roi_scaled = NoneVal
    /\ roi_result = NoCall

InitOcr ==
    /\ call \in Calls
    /\ result = NoCall
    /\ engine = NoCall
    /\ engine_calls = 0
    /\ stdout = <<>>
    /\ MapperIdle
    /\ RestIdle

\* the effect of a function on the recorded outcome and on the engine
Record(d) ==
    /\ result' = d.result
    /\ engine' = d.engine
    /\ engine_calls' = IF d.engine = NoCall THEN engine_calls ELSE engine_calls + 1
    /\ stdout' = d.stdout
    /\ UNCHANGED mapperVars
    /\ UNCHANGED restVars

Run(c) ==
    CASE c.op = "preprocess_image" ->
           Record(Did(PreprocessImage(c.image, c.mode, c.threshold), NoCall, <<>>))
      [] c.op = "extract_text_with_boxes" ->
           Record(ExtractTextWithBoxes(c.image, c.out))
      [] c.op = "get_text_boxes" ->
           Record(GetTextBoxes(c.image, c.out))
      [] c.op = "extract_text_from_roi" ->
           Record(ExtractTextFromRoi(c.image, c.roi, c.mode, c.threshold, c.out))
      [] c.op = "full_image_path" ->
           Record(FullImagePath(c.image, c.mode, c.threshold, c.out))

Pending(name) == call # NoCall /\ result = NoCall /\ call.op = name

preprocess_image == Pending("preprocess_image") /\ Run(call) /\ UNCHANGED call
extract_text_with_boxes == Pending("extract_text_with_boxes") /\ Run(call) /\ UNCHANGED call
get_text_boxes == Pending("get_text_boxes") /\ Run(call) /\ UNCHANGED call
extract_text_from_roi == Pending("extract_text_from_roi") /\ Run(call) /\ UNCHANGED call
full_image_path == Pending("full_image_path") /\ Run(call) /\ UNCHANGED call

NextOcr ==
    \/ preprocess_image
    \/ extract_text_with_boxes
    \/ get_text_boxes
    \/ extract_text_from_roi
    \/ full_image_path

SpecOcr == InitOcr /\ [][NextOcr]_vars

----------------------------------------------------------------------------
(* Sequences of calls of ocr_utils against one engine *)

InitSeq == OcrIdle /\ MapperIdle /\ RestIdle

\* the callers in main.py (366-367, 397-398, 415-416) handle no exception: one
\* that leaves a function ends the hosting process, and no call follows it
SeqReady == result.kind # "raise" /\ engine_calls < MaxCalls

SeqCall(name) == \E c \in SeqCalls : c.op = name /\ call' = c /\ Run(c)

seq_preprocess_image ==
    /\ SeqReady
    /\ SeqCall("preprocess_image")
seq_extract_text_with_boxes ==
    /\ SeqReady
    /\ SeqCall("extract_text_with_boxes")
seq_get_text_boxes ==
    /\ SeqReady
    /\ SeqCall("get_text_boxes")
seq_extract_text_from_roi ==
    /\ SeqReady
    /\ SeqCall("extract_text_from_roi")
seq_full_image_path ==
    /\ SeqReady
    /\ SeqCall("full_image_path")

NextSeq ==
    \/ seq_preprocess_image
    \/ seq_extract_text_with_boxes
    \/ seq_get_text_boxes
    \/ seq_extract_text_from_roi
    \/ seq_full_image_path

SpecSeq == InitSeq /\ [][NextSeq]_vars

----------------------------------------------------------------------------
(* preprocess_image on pixel buffers: the primitives that preprocess_image   *)
(* applies (ocr_utils.py 28-59), computed on 8-bit single-channel buffers    *)
(* given as rows of gray values                                              *)

\* pixel buffers hold up to MaxPix pixels: 1 x 1 up to 2 x 2, 1 x 4 and 4 x 1
MaxPix == 4

GrayLevels == {0, 127, 255}
PixelThresholds == {0, 126, 127, 254, 255}
\* the adaptive threshold's Gaussian window is not computed on pixels
PixelModes == (Modes \ {"Adaptive Threshold"}) \cup UnknownModes

Rows(px) == Len(px)
Cols(px) == Len(px[1])
Buffer(h, w, F(_, _)) == [i \in 1..h |-> [j \in 1..w |-> F(i, j)]]
Near(i, n) == Max(1, Min(i, n))

\* cv2.medianBlur(px, k): the median of the k x k window around each pixel,
\* the border pixels replicated outwards
MedianBlur(px, k) ==
    LET r == (k - 1) \div 2
        win == (-r..r) \X (-r..r)
        At(i, j, d) == px[Near(i + d[1], Rows(px))][Near(j + d[2], Cols(px))]
        AtMost(i, j, v) == Cardinality({d \in win : At(i, j, d) <= v})
        half == (k * k + 1) \div 2
        Median(i, j) ==
            CHOOSE v \in {At(i, j, d) : d \in win} :
                /\ AtMost(i, j, v) >= half
                /\ \A u \in {At(i, j, d) : d \in win} : AtMost(i, j, u) >= half => v <= u
    IN  Buffer(Rows(px), Cols(px), Median)

\* cv2.threshold(px, thresh, maxval, THRESH_BINARY)
ThresholdBinary(px, thresh, maxval) ==
    LET Cut(i, j) == IF px[i][j] > thresh THEN maxval ELSE 0
    IN  Buffer(Rows(px), Cols(px), Cut)

\* the pixels of the 3 x 3 rectangle around (i, j) that lie inside the buffer
Around(px, i, j) ==
    {px[a][b] : a \in Max(1, i - 1)..Min(Rows(px), i + 1),
                b \in Max(1, j - 1)..Min(Cols(px), j + 1)}
SetMax(S) == CHOOSE v \in S : \A u \in S : u <= v
SetMin(S) == CHOOSE v \in S : \A u \in S : v <= u

Dilate(px) ==
    LET F(i, j) == SetMax(Around(px, i, j)) IN Buffer(Rows(px), Cols(px), F)
Erode(px) ==
    LET F(i, j) == SetMin(Around(px, i, j)) IN Buffer(Rows(px), Cols(px), F)

\* F applied to the value of px0 (px0 is computed once, then handed on)
Then(px0, F(_)) == CHOOSE out \in {F(px) : px \in {px0}} : TRUE

\* one primitive of the list that PreprocessImage builds, on a pixel buffer:
\* closing is dilation then erosion, opening is erosion then dilation
Primitive(o, px) ==
    CASE o.op = "medianBlur" -> MedianBlur(px, o.args[1])
      [] o.op = "threshold" -> ThresholdBinary(px, o.args[1], o.args[2])
      [] o.op = "MORPH_CLOSE" -> Then(Dilate(px), Erode)
      [] o.op = "MORPH_OPEN" -> Then(Erode(px), Dilate)

RECURSIVE Interpret(_, _)
Interpret(ops, px0) ==
    IF ops = <<>> THEN px0
    ELSE LET Rest(px) == Interpret(Tail(ops), Primitive(Head(ops), px))
         IN  Then(px0, Rest)

\* the shape of a single-channel pixel buffer
ShapeOf(px) == BlankImage(Rows(px), Cols(px), 1)

PixelShapes == {s \in (1..MaxPix) \X (1..MaxPix) : s[1] * s[2] <= MaxPix}
PixelImages == UNION {[1..s[1] -> [1..s[2] -> GrayLevels]] : s \in PixelShapes}

InitPixels ==
    /\ px_call \in [image : PixelImages, mode : PixelModes, threshold : PixelThresholds]
    /\ px_denoised = NoneVal
    /\ px_result = NoCall
    /\ MapperIdle
    /\ OcrIdle
    /\ CaptureIdle
    /\ AppIdle
    /\ CameraIdle

\* preprocess_image(image, mode, threshold) on the pixels of a grayscale image
preprocess_pixels ==
    /\ px_result = NoCall
    /\ px_denoised' = Interpret(Denoised(ShapeOf(px_call.image)).ops, px_call.image)
    /\ px_result' =
         Return(Interpret(PreprocessImage(ShapeOf(px_call.image), px_call.mode,
                                          px_call.threshold).val.ops,
                          px_call.image))
    /\ UNCHANGED px_call
    /\ UNCHANGED <<mapperVars, ocrVars, captureVars, appVars, cameraVars>>

NextPixels == preprocess_pixels

SpecPixels == InitPixels /\ [][NextPixels]_vars

----------------------------------------------------------------------------
(* camera_utils.CameraCapture (lines 11-157) *)

\* get_frame is called at most MaxReads times on an open capture
MaxReads == 3

\* a frame as read from the device
Frame == BlankImage(1, 1, 3)

Device(opened) == [opened |-> opened]

\* __init__ (lines 21-43): cv2.VideoCapture raised; it could not open the
\* camera; one of the set() calls raised after it had opened; it opened
Constructed ==
    {[camera |-> NoneVal, is_open |-> FALSE],
     [camera |-> Device(FALSE), is_open |-> FALSE],
     [camera |-> Device(TRUE), is_open |-> FALSE],
     [camera |-> Device(TRUE), is_open |-> TRUE]}

\* what camera.read() can do: a frame, (False, None), or an exception; a
\* released device yields no frame
ReadOutcomes(cam) == IF cam.opened THEN {"frame", "fail", "exception"} ELSE {"fail", "exception"}
\* what camera.set() / camera.get() can do
CallOutcomes == {"ok", "exception"}

\* release() that leaves is_open as it was
ReleaseKeepsOpen(cam, open) ==
    IF cam # NoneVal THEN [camera |-> Device(FALSE), is_open |-> open]
    ELSE [camera |-> cam, is_open |-> open]

\* release (lines 82-86)
Release(cam, open) ==
    IF cam # NoneVal THEN [camera |-> Device(FALSE), is_open |-> FALSE]
    ELSE [camera |-> cam, is_open |-> open]

\* line 52: get_frame reads the device only when this holds
Readable == is_open /\ camera # NoneVal

CaptureOther == <<mapperVars, ocrVars, pixelVars, appVars, cameraVars>>

InitCapture ==
    /\ \E c \in Constructed : camera = c.camera /\ is_open = c.is_open
    /\ frame_count = 0
    /\ device_reads = 0
    /\ good_reads = 0
    /\ released = FALSE
    /\ cap_result = NoCall
    /\ MapperIdle /\ OcrIdle /\ PixelIdle /\ AppIdle /\ CameraIdle

Returned(name, v) == [op |-> name, val |-> v]

\* get_frame (lines 45-66), also as called by get_frame_with_delay (78)
GetFrame(name) ==
    IF ~Readable
    THEN /\ cap_result' = Returned(name, NoneVal)
         /\ UNCHANGED <<frame_count, device_reads, good_reads>>
    ELSE /\ device_reads < MaxReads
         /\ device_reads' = device_reads + 1
         /\ \E out \in ReadOutcomes(camera) :
              IF out = "frame"
              THEN /\ frame_count' = frame_count + 1
                   /\ good_reads' = good_reads + 1
                   /\ cap_result' = Returned(name, Frame)
              ELSE /\ cap_result' = Returned(name, NoneVal)
                   /\ UNCHANGED <<frame_count, good_reads>>

get_frame ==
    /\ GetFrame("get_frame")
    /\ UNCHANGED <<camera, is_open, released>>
    /\ UNCHANGED CaptureOther

get_frame_with_delay ==
    /\ GetFrame("get_frame_with_delay")
    /\ UNCHANGED <<camera, is_open, released>>
    /\ UNCHANGED CaptureOther

release ==
    /\ camera' = Release(camera, is_open).camera
    /\ is_open' = Release(camera, is_open).is_open
    /\ released' = TRUE
    /\ cap_result' = Returned("release", NoneVal)
    /\ UNCHANGED <<frame_count, device_reads, good_reads>>
    /\ UNCHANGED CaptureOther

is_available ==
    /\ cap_result' = Returned("is_available", is_open)
    /\ UNCHANGED <<camera, is_open, frame_count, device_reads, good_reads, released>>
    /\ UNCHANGED CaptureOther

get_frame_count ==
    /\ cap_result' = Returned("get_frame_count", frame_count)
    /\ UNCHANGED <<camera, is_open, frame_count, device_reads, good_reads, released>>
    /\ UNCHANGED CaptureOther

reset_frame_count ==
    /\ frame_count' = 0
    /\ good_reads' = 0
    /\ cap_result' = Returned("reset_frame_count", NoneVal)
    /\ UNCHANGED <<camera, is_open, device_reads, released>>
    /\ UNCHANGED CaptureOther

\* set_resolution (100-120) and set_fps (122-140): False when not open, else
\* True unless camera.set raises
Setter(name) ==
    /\ \E out \in CallOutcomes :
         cap_result' = Returned(name, is_open /\ out = "ok")
    /\ UNCHANGED <<camera, is_open, frame_count, device_reads, good_reads, released>>
    /\ UNCHANGED CaptureOther

set_resolution ==
    /\ Setter("set_resolution")
set_fps ==
    /\ Setter("set_fps")

\* get_resolution (142-157): (0, 0) when not open or when camera.get raises
get_resolution ==
    /\ \E out \in CallOutcomes :
         cap_result' = Returned("get_resolution",
                                IF is_open /\ out = "ok" THEN <<640, 480>> ELSE <<0, 0>>)
    /\ UNCHANGED <<camera, is_open, frame_count, device_reads, good_reads, released>>
    /\ UNCHANGED CaptureOther

NextCapture ==
    \/ get_frame
    \/ get_frame_with_delay
    \/ release
    \/ is_available
    \/ get_frame_count
    \/ reset_frame_count
    \/ set_resolution
    \/ set_fps
    \/ get_resolution

SpecCapture == InitCapture /\ [][NextCapture]_vars

----------------------------------------------------------------------------
(* TextScannerApp and ImageCanvas (main.py): the handlers that load, show  *)
(* and select images, each run by the GUI thread's event loop              *)

\* loaded images and camera frames are 1 x AppDim .. AppDim x 1
AppDim == 2
\* mouse positions are (-1) .. MaxMouse
MaxMouse == 1

\* what cv2.imread and the camera deliver: 3-channel, never empty
AppImages == {BlankImage(i, AppDim + 1 - i, 3) : i \in 1..AppDim}
\* the pixmap Qt makes of the image for the label's current size
AppPixmaps == {[w |-> 0, h |-> 1], [w |-> 2, h |-> 1], [w |-> 1, h |-> 2]}
MousePoints == {[x |-> i, y |-> MaxMouse - i] : i \in (-1)..MaxMouse}
\* what the engine finds in show_overlay
AppCandidates == {c \in Candidates : c.left = 0 /\ c.conf \in {0, 90}}
AppData == {o \in EngineData(1) : o.kind = "return" => \A i \in DOMAIN o.val : o.val[i] \in AppCandidates}
AppText == EngineText(0)

\* QRect(p1, p2).normalized() (line 148): corners p1 and p2 inclusive, the
\* corners exchanged where p2 lies before p1
Normalized(p1, p2) ==
    LET x1 == IF p2.x < p1.x - 1 THEN p2.x ELSE p1.x
        x2 == IF p2.x < p1.x - 1 THEN p1.x ELSE p2.x
        y1 == IF p2.y < p1.y - 1 THEN p2.y ELSE p1.y
        y2 == IF p2.y < p1.y - 1 THEN p1.y ELSE p2.y
    IN  [x |-> x1, y |-> y1, w |-> x2 - x1 + 1, h |-> y2 - y1 + 1]

\* lines 421-425: the rectangle and the confidence label of each detection
RECURSIVE Drawn(_, _)
Drawn(image, boxes) ==
    IF boxes = <<>> THEN image
    ELSE LET b == Head(boxes)
             framed == Apply(image, Op("rectangle", <<b[1], b[2], b[1] + b[3], b[2] + b[4]>>))
             labelled == IF b[5] > 0
                         THEN Apply(framed, Op("putText", <<b[5], b[1], b[2] - 5>>))
                         ELSE framed
         IN  Drawn(labelled, Tail(boxes))

\* the detections drawn into the source buffer itself
DrawOnSource(cur, boxes) ==
    [current |-> Drawn(cur, boxes), display |-> Drawn(cur, boxes)]

\* lines 419-425: the detections are drawn into a copy of current_image
DrawOverlay(cur, boxes) ==
    [current |-> cur, display |-> Drawn(cur, boxes)]

\* set_image that keeps the canvas image it had
SetImageKeepsOld(image, old) == IF old = NoneVal THEN image ELSE old

\* line 88: the image stored by set_image (a copy of its argument)
SetImageStores(image, old) == image

\* set_image (lines 86-90); p is the pixmap update_display makes
SetImage(image, p) ==
    /\ canvas_image' = SetImageStores(image, canvas_image)
    /\ roi_rect' = NoneVal
    /\ display_pixmap' = p

\* a handler runs while no exception has left an earlier one
AppReady == app_error = NoneVal

AppOther == <<ocrVars, pixelVars, captureVars, cameraVars>>

InitApp == AppIdle /\ MapperIdle /\ OcrIdle /\ PixelIdle /\ CaptureIdle /\ CameraIdle

\* load_image (lines 299-312) with a file chosen: img is what cv2.imread returns
load_image ==
    /\ AppReady
    /\ ocr_roi_image' = NoneVal
    /\ \E img \in AppImages \cup {NoneVal} :
         /\ current_image' = img
         /\ IF img # NoneVal
            THEN /\ \E p \in AppPixmaps : SetImage(img, p)
                 /\ last_source' = img
                 /\ text_display' = <<>>
                 /\ status' = "Image loaded"
            ELSE /\ status' = "Error: Could not load image"
                 /\ UNCHANGED <<canvas_image, roi_rect, display_pixmap, last_source,
                                text_display>>
    /\ UNCHANGED <<roi_scaled, roi_result, roi_start, roi_active, overlay_pc,
                   app_error>>
    /\ UNCHANGED AppOther

\* on_camera_frame (lines 343-346)
OnCameraFrame(frame) ==
    /\ ocr_roi_image' = NoneVal
    /\ current_image' = frame
    /\ last_source' = frame
    /\ \E p \in AppPixmaps : SetImage(frame, p)
    /\ UNCHANGED <<roi_scaled, roi_result, roi_start, roi_active, status, text_display,
                   overlay_pc, app_error>>
    /\ UNCHANGED <<ocrVars, pixelVars, captureVars>>

\* a frame_ready signal reaches the application
on_camera_frame ==
    /\ AppReady
    /\ \E frame \in AppImages : OnCameraFrame(frame)
    /\ UNCHANGED cameraVars

\* show_overlay up to its processEvents() call (lines 403-410), during which
\* the event loop runs other handlers
show_overlay_begin ==
    /\ AppReady
    /\ ocr_roi_image' = NoneVal
    /\ overlay_pc = "idle"
    /\ IF current_image = NoneVal
       THEN status' = "No image loaded" /\ UNCHANGED overlay_pc
       ELSE status' = "Generating text box overlay..." /\ overlay_pc' = "events"
    /\ UNCHANGED <<current_image, last_source, roi_start, roi_active, text_display, app_error>>
    /\ UNCHANGED mapperVars
    /\ UNCHANGED AppOther

\* show_overlay from line 412 on: current_image is read again; None by now
\* makes line 419 raise AttributeError
show_overlay_finish ==
    /\ AppReady
    /\ ocr_roi_image' = NoneVal
    /\ overlay_pc = "events"
    /\ overlay_pc' = "idle"
    /\ IF current_image = NoneVal
       THEN /\ app_error' = Raise("AttributeError")
            /\ UNCHANGED <<current_image, status>>
            /\ UNCHANGED <<canvas_image, roi_rect, display_pixmap>>
       ELSE \E mode \in Modes, threshold \in Thresholds, out \in AppData :
              LET processed == PreprocessImage(current_image, mode, threshold).val
                  boxes == GetTextBoxes(processed, out).result.val
                  drawn == DrawOverlay(current_image, boxes)
              IN  /\ current_image' = drawn.current
                  /\ \E p \in AppPixmaps : SetImage(drawn.display, p)
                  /\ status' = "Overlay complete"
                  /\ UNCHANGED app_error
    /\ UNCHANGED <<roi_scaled, roi_result, last_source, roi_start, roi_active,
                   text_display>>
    /\ UNCHANGED AppOther

\* ocr_full_image (lines 354-370)
ocr_full_image ==
    /\ AppReady
    /\ ocr_roi_image' = NoneVal
    /\ IF current_image = NoneVal
       THEN status' = "No image loaded" /\ UNCHANGED text_display
       ELSE \E mode \in Modes, threshold \in Thresholds, out \in AppText :
              LET text == FullImagePath(current_image, mode, threshold, out).result.val
              IN  /\ text_display' = IF text # <<>> THEN text ELSE <<"No text detected">>
                  /\ status' = "OCR complete - Full image processed"
    /\ UNCHANGED <<current_image, last_source, roi_start, roi_active,
                   overlay_pc, app_error>>
    /\ UNCHANGED mapperVars
    /\ UNCHANGED AppOther

\* ocr_roi (lines 372-401)
ocr_roi ==
    /\ AppReady
    /\ LET roi == RoiInImageCoords(roi_rect, canvas_image, display_pixmap) IN
       IF roi.kind = "raise"
       THEN /\ app_error' = roi
            /\ ocr_roi_image' = NoneVal /\ UNCHANGED <<status, text_display>>
       ELSE IF roi.val = NoneVal
       THEN /\ status' = "Please select a region first"
            /\ ocr_roi_image' = NoneVal /\ UNCHANGED <<text_display, app_error>>
       ELSE IF current_image = NoneVal
       THEN /\ status' = "No image loaded"
            /\ ocr_roi_image' = NoneVal /\ UNCHANGED <<text_display, app_error>>
       ELSE /\ ocr_roi_image' = Crop(current_image, roi.val)
            /\ UNCHANGED app_error
            /\ IF IsEmpty(Crop(current_image, roi.val))
               THEN status' = "Invalid ROI selection" /\ UNCHANGED text_display
               ELSE \E mode \in Modes, threshold \in Thresholds, out \in AppText :
                      LET text == FullImagePath(Crop(current_image, roi.val),
                                                mode, threshold, out).result.val
                      IN  /\ text_display' = IF text # <<>> THEN text
                                             ELSE <<"No text detected in ROI">>
                          /\ status' = "OCR complete - ROI processed"
    /\ UNCHANGED mapperVars
    /\ UNCHANGED <<current_image, last_source, roi_start, roi_active, overlay_pc>>
    /\ UNCHANGED AppOther

\* mousePressEvent (lines 138-141)
mousePressEvent ==
    /\ AppReady
    /\ ocr_roi_image' = NoneVal
    /\ \E pos \in MousePoints : roi_start' = pos
    /\ roi_active' = TRUE
    /\ UNCHANGED <<current_image, last_source, status, text_display,
                   overlay_pc, app_error>>
    /\ UNCHANGED mapperVars
    /\ UNCHANGED AppOther

\* mouseMoveEvent (lines 143-149)
mouseMoveEvent ==
    /\ AppReady
    /\ IF roi_start = NoneVal
       THEN UNCHANGED roi_rect
       ELSE \E pos \in MousePoints : roi_rect' = Normalized(roi_start, pos)
    /\ UNCHANGED <<canvas_image, display_pixmap, roi_scaled, roi_result>>
    /\ UNCHANGED <<current_image, last_source, roi_start, roi_active, status, text_display,
                   overlay_pc, app_error>>
    /\ ocr_roi_image' = NoneVal
    /\ UNCHANGED AppOther

\* mouseReleaseEvent (lines 151-153)
mouseReleaseEvent ==
    /\ AppReady
    /\ ocr_roi_image' = NoneVal
    /\ roi_active' = FALSE
    /\ UNCHANGED <<current_image, last_source, roi_start, status, text_display, overlay_pc, app_error>>
    /\ UNCHANGED mapperVars
    /\ UNCHANGED AppOther

\* update_display (lines 105-123): with no image the label is cleared and the
\* pixmap field keeps its value
UpdateDisplay ==
    IF canvas_image = NoneVal THEN UNCHANGED display_pixmap
    ELSE \E p \in AppPixmaps : display_pixmap' = p

\* clear_roi (lines 182-186)
clear_roi ==
    /\ AppReady
    /\ ocr_roi_image' = NoneVal
    /\ roi_rect' = NoneVal
    /\ roi_start' = NoneVal
    /\ UpdateDisplay
    /\ UNCHANGED <<canvas_image, roi_scaled, roi_result>>
    /\ UNCHANGED <<current_image, last_source, roi_active, status, text_display, overlay_pc, app_error>>
    /\ UNCHANGED AppOther

\* resizeEvent (lines 188-192)
resizeEvent ==
    /\ AppReady
    /\ UpdateDisplay
    /\ UNCHANGED <<canvas_image, roi_rect, roi_scaled, roi_result>>
    /\ UNCHANGED <<current_image, last_source, roi_start, roi_active, status, text_display,
                   overlay_pc, app_error>>
    /\ ocr_roi_image' = NoneVal
    /\ UNCHANGED AppOther

NextApp ==
    \/ load_image
    \/ on_camera_frame
    \/ show_overlay_begin
    \/ show_overlay_finish
    \/ ocr_full_image
    \/ ocr_roi
    \/ mousePressEvent
    \/ mouseMoveEvent
    \/ mouseReleaseEvent
    \/ clear_roi
    \/ resizeEvent

SpecApp == InitApp /\ [][NextApp]_vars

----------------------------------------------------------------------------
(* The live camera: CameraThread.run / stop (main.py 32-68) in its own      *)
(* thread, start_camera / stop_camera / on_camera_frame / on_camera_error  *)
(* (314-352) and closeEvent (433-437) in the GUI thread.  The thread's      *)
(* signals are queued for the GUI thread's event loop, which delivers them  *)
(* in order while it is not blocked in wait().                              *)

\* frame_ready signals waiting in the event queue are counted up to MaxPending
MaxPending == 2

\* CameraThread.__init__ (lines 38-41) followed by start()
NewThread == [pc |-> "construct", running |-> FALSE, camera |-> NoneVal]

Finished == camera_thread # NoneVal /\ camera_thread.pc = "done"
\* the thread's capture holds no open device
DeviceReleased ==
    \/ camera_thread.camera = NoneVal
    \/ camera_thread.camera.camera = NoneVal
    \/ ~camera_thread.camera.camera.opened

CameraOther == <<ocrVars, pixelVars, captureVars>>
\* the handlers of the camera that do not touch the images
ImagesUnchanged ==
    /\ UNCHANGED mapperVars
    /\ UNCHANGED <<current_image, last_source, roi_start, roi_active, text_display,
                   ocr_roi_image, overlay_pc, app_error>>
    /\ UNCHANGED CameraOther

InitCamera == InitApp

\* toggle_camera (314-319) with camera_active false: start_camera (321-333).
\* A thread is started once the previous one has finished and its signals
\* have been delivered.
start_camera ==
    /\ gui_pc = "idle"
    /\ ~camera_active
    /\ camera_thread = NoneVal \/ Finished
    /\ pending_frames = 0 /\ ~pending_error
    /\ camera_thread' = NewThread
    /\ camera_active' = TRUE
    /\ stop_requested' = FALSE
    /\ status' = "Camera started"
    /\ UNCHANGED <<gui_pc, pending_frames, pending_error>>
    /\ ImagesUnchanged

\* toggle_camera with camera_active true, or closeEvent (433-437):
\* stop_camera (335-341) up to the wait() of CameraThread.stop (65-68)
stop_camera ==
    /\ gui_pc = "idle"
    /\ camera_active
    /\ camera_thread # NoneVal
    /\ camera_thread' = [camera_thread EXCEPT !.running = FALSE]
    /\ stop_requested' = TRUE
    /\ gui_pc' = "waiting"
    /\ UNCHANGED <<camera_active, pending_frames, pending_error, status>>
    /\ ImagesUnchanged

\* wait() returns when run() has returned; stop_camera goes on (lines 339-341)
wait_returns ==
    /\ gui_pc = "waiting"
    /\ Finished
    /\ gui_pc' = "idle"
    /\ camera_active' = FALSE
    /\ status' = "Camera stopped"
    /\ UNCHANGED <<camera_thread, stop_requested, pending_frames, pending_error>>
    /\ ImagesUnchanged

\* the event loop delivers a queued frame_ready to on_camera_frame
deliver_frame ==
    /\ gui_pc = "idle"
    /\ pending_frames > 0
    /\ pending_frames' = pending_frames - 1
    /\ OnCameraFrame(Frame)
    /\ UNCHANGED <<camera_active, camera_thread, gui_pc, stop_requested, pending_error>>

\* the event loop delivers the queued error_signal to on_camera_error (348-352)
on_camera_error ==
    /\ gui_pc = "idle"
    /\ pending_frames = 0
    /\ pending_error
    /\ pending_error' = FALSE
    /\ camera_active' = FALSE
    /\ status' = "Camera error"
    /\ UNCHANGED <<camera_thread, gui_pc, stop_requested, pending_frames>>
    /\ ImagesUnchanged

\* a step of run() that changes the thread object only
ThreadOnly ==
    /\ UNCHANGED <<camera_active, gui_pc, stop_requested, status>>
    /\ ImagesUnchanged

At(pc) == camera_thread # NoneVal /\ camera_thread.pc = pc

\* line 46: self.camera = CameraCapture()
run_construct ==
    /\ At("construct")
    /\ \E c \in Constructed :
         camera_thread' = [camera_thread EXCEPT !.camera = c, !.pc = "check"]
    /\ UNCHANGED <<pending_frames, pending_error>>
    /\ ThreadOnly

\* lines 47-49: no camera, the error is signalled and run() returns
run_check ==
    /\ At("check")
    /\ IF camera_thread.camera.is_open
       THEN /\ camera_thread' = [camera_thread EXCEPT !.pc = "set_running"]
            /\ UNCHANGED pending_error
       ELSE /\ camera_thread' = [camera_thread EXCEPT !.pc = "finally"]
            /\ pending_error' = TRUE
    /\ UNCHANGED pending_frames
    /\ ThreadOnly

\* line 51: self.running = True
run_set_running ==
    /\ At("set_running")
    /\ camera_thread' = [camera_thread EXCEPT !.running = TRUE, !.pc = "loop"]
    /\ UNCHANGED <<pending_frames, pending_error>>
    /\ ThreadOnly

\* line 52: while self.running
run_loop_test ==
    /\ At("loop")
    /\ camera_thread' = [camera_thread EXCEPT
                           !.pc = IF camera_thread.running THEN "read" ELSE "finally"]
    /\ UNCHANGED <<pending_frames, pending_error>>
    /\ ThreadOnly

\* lines 53-58: a frame is signalled and the loop goes on; no frame ends it
run_read ==
    /\ At("read")
    /\ \E out \in ReadOutcomes(camera_thread.camera.camera) \ {"exception"} :
         IF out = "frame"
         THEN /\ pending_frames' = Min(pending_frames + 1, MaxPending)
              /\ camera_thread' = [camera_thread EXCEPT !.pc = "loop"]
         ELSE /\ camera_thread' = [camera_thread EXCEPT !.pc = "finally"]
              /\ UNCHANGED pending_frames
    /\ UNCHANGED pending_error
    /\ ThreadOnly

\* lines 59-60: an exception inside the loop is signalled
run_except ==
    /\ At("read")
    /\ camera_thread' = [camera_thread EXCEPT !.pc = "finally"]
    /\ pending_error' = TRUE
    /\ UNCHANGED pending_frames
    /\ ThreadOnly

\* lines 61-63: the capture is released and run() returns
run_finally ==
    /\ At("finally")
    /\ camera_thread' =
         [camera_thread EXCEPT
            !.camera = Release(camera_thread.camera.camera, camera_thread.camera.is_open),
            !.pc = "done"]
    /\ UNCHANGED <<pending_frames, pending_error>>
    /\ ThreadOnly

ThreadStep ==
    \/ run_construct
    \/ run_check
    \/ run_set_running
    \/ run_loop_test
    \/ run_read
    \/ run_except
    \/ run_finally

DeliverSignal ==
    \/ deliver_frame
    \/ on_camera_error

NextCamera ==
    \/ start_camera
    \/ stop_camera
    \/ wait_returns
    \/ deliver_frame
    \/ on_camera_error
    \/ run_construct
    \/ run_check
    \/ run_set_running
    \/ run_loop_test
    \/ run_read
    \/ run_except
    \/ run_finally

SpecCamera == InitCamera /\ [][NextCamera]_vars

\* the scheduler runs the capture thread, the event loop delivers queued
\* signals and wait() returns once the thread has finished; the user is
\* under no obligation to click
SpecCameraFair ==
    /\ InitCamera
    /\ [][NextCamera]_vars
    /\ WF_vars(ThreadStep)
    /\ WF_vars(DeliverSignal)
    /\ WF_vars(wait_returns)

----------------------------------------------------------------------------
(* Properties of preprocess_image on pixels, under SpecPixels *)

Preprocessed(mode) == px_result # NoCall /\ px_call.mode = mode

Pixels(px) == {px[i][j] : i \in 1..Rows(px), j \in 1..Cols(px)}

\* C11: in Threshold mode a pixel of the output is 255 exactly when its
\* denoised value is strictly above the threshold, and 0 otherwise; the
\* Morphological output holds only the values 0 and 255.
C11_ThresholdIsBinaryCutoff ==
    /\ Preprocessed("Threshold") =>
         /\ Rows(px_result.val) = Rows(px_denoised)
         /\ Cols(px_result.val) = Cols(px_denoised)
         /\ \A i \in 1..Rows(px_denoised), j \in 1..Cols(px_denoised) :
              /\ px_result.val[i][j] \in {0, 255}
              /\ px_result.val[i][j] = 255 <=> px_denoised[i][j] > px_call.threshold
    /\ Preprocessed("Morphological") => Pixels(px_result.val) \subseteq {0, 255}

\* a buffer whose denoised values lie on both sides of the threshold, one of
\* them equal to it, has been thresholded, and the median blur had changed it
C11_Witness ==
    /\ Preprocessed("Threshold")
    /\ px_call.threshold \in Pixels(px_denoised)
    /\ \E v \in Pixels(px_denoised) : v > px_call.threshold
    /\ px_denoised # px_call.image

----------------------------------------------------------------------------
(* Properties of CameraCapture, under SpecCapture *)

\* what each method has to return once release() has been called
AfterReleaseAnswer ==
    CASE cap_result.op = "is_available" -> cap_result.val = FALSE
      [] cap_result.op \in {"get_frame", "get_frame_with_delay"} -> cap_result.val = NoneVal
      [] cap_result.op \in {"set_resolution", "set_fps"} -> cap_result.val = FALSE
      [] cap_result.op = "get_resolution" -> cap_result.val = <<0, 0>>
      [] OTHER -> TRUE

\* after release() no step reads the device or raises frame_count
AfterReleaseStep ==
    released => (device_reads' = device_reads /\ frame_count' <= frame_count)

\* C18: once release() has been called, is_available() returns false,
\* get_frame() returns None without reading the device, set_resolution and
\* set_fps return False, get_resolution returns (0, 0) and frame_count is not
\* incremented; frame_count always equals the number of successful reads
\* since construction or the last reset_frame_count.
C18_ReleasedCaptureIsInert ==
    /\ [](released => (~is_open /\ AfterReleaseAnswer))
    /\ [](frame_count = good_reads)
    /\ [][AfterReleaseStep]_vars

\* frames were read and counted, the capture was released, and a later
\* get_frame returned None
C18_Witness ==
    /\ released
    /\ cap_result.op = "get_frame"
    /\ cap_result.val = NoneVal
    /\ camera = Device(FALSE)
    /\ frame_count = 2
    /\ device_reads = MaxReads

----------------------------------------------------------------------------
(* Properties of TextScannerApp, under SpecApp *)

\* C14: after any sequence of show_overlay operations the current source
\* image is identical to the image last loaded or captured: the boxes drawn
\* for display never reach current_image.
C14_OverlayLeavesSourceUnchanged ==
    current_image # NoneVal => current_image = last_source

\* an overlay with a box drawn on it is on the canvas, the source is still
\* the loaded image
C14_Witness ==
    /\ status = "Overlay complete"
    /\ canvas_image # NoneVal
    /\ canvas_image.ops # <<>>
    /\ current_image # NoneVal
    /\ current_image.ops = <<>>

\* C17: if current_image is present, the canvas image is present and has the
\* same width and height; the crop ocr_roi makes of current_image has
\* non-zero area, the "Invalid ROI selection" branch is never taken.
C17_CanvasMatchesSource ==
    /\ current_image # NoneVal =>
         /\ canvas_image # NoneVal
         /\ canvas_image.w = current_image.w
         /\ canvas_image.h = current_image.h
    /\ ocr_roi_image # NoneVal => ~IsEmpty(ocr_roi_image)
    /\ status # "Invalid ROI selection"

\* a selection dragged on an overlay of an image loaded after another of a
\* different size, cropped by ocr_roi
C17_Witness ==
    /\ status = "OCR complete - ROI processed"
    /\ ocr_roi_image # NoneVal
    /\ canvas_image.ops # <<>>
    /\ roi_rect # NoneVal
    /\ roi_rect.w > display_pixmap.w
    /\ current_image.w < AppDim

----------------------------------------------------------------------------
(* Properties of the live camera, under SpecCamera and SpecCameraFair *)

\* C15: whenever stop is called after start_camera, in every interleaving of
\* the GUI thread with the capture thread, the capture loop eventually
\* exits, stop's wait() returns and the camera device has been released.
C15_StopTerminatesCapture ==
    (gui_pc = "waiting") ~> (Finished /\ gui_pc = "idle" /\ DeviceReleased)

\* C16: if the capture loop ends without stop having been requested, the
\* application is notified and sets camera_active to false: once the thread
\* has finished and no signal is on its way, camera_active is false.
C16_LoopEndIsReported ==
    (Finished /\ ~stop_requested /\ ~pending_error /\ pending_frames = 0)
        => ~camera_active

----------------------------------------------------------------------------
(* Properties of get_roi_in_image_coords, under SpecMapper *)

Mapped == roi_result.kind = "return" /\ roi_result.val # NoneVal

\* C1: for every display rectangle, display size >= 1 and source size >= 1,
\* the returned rectangle lies inside the source image and has positive
\* area: 0 <= x <= W-1, 0 <= y <= H-1, w >= 1, h >= 1, x+w <= W, y+h <= H.
C1_MappedRectInsideSource ==
    Mapped =>
        LET r == roi_result.val
            W == canvas_image.w
            H == canvas_image.h
        IN  /\ 0 <= r.x /\ r.x <= W - 1
            /\ 0 <= r.y /\ r.y <= H - 1
            /\ r.w >= 1 /\ r.h >= 1
            /\ r.x + r.w <= W
            /\ r.y + r.h <= H

\* a rectangle of no width that starts left of the display and ends below it
\* has been mapped
C1_Witness ==
    /\ Mapped
    /\ roi_rect.x < 0
    /\ roi_rect.w = 0
    /\ roi_rect.y + roi_rect.h > display_pixmap.h

\* t is one of the integers nearest to v * img / disp
IsNearest(t, v, img, disp) == 2 * Abs(t * disp - v * img) <= disp

\* t is v * img / disp with its fraction dropped
IsTruncation(t, v, img, disp) ==
    /\ t * v >= 0
    /\ Abs(t) * disp <= Abs(v) * img
    /\ Abs(v) * img < (Abs(t) + 1) * disp

\* C2 as claimed: before clamping, each coordinate is x * sourceWidth /
\* displayWidth (y, h: * sourceHeight / displayHeight) rounded to the nearest
\* integer.
C2_RoundsToNearest ==
    roi_scaled # NoneVal =>
        /\ IsNearest(roi_scaled.x, roi_rect.x, canvas_image.w, display_pixmap.w)
        /\ IsNearest(roi_scaled.y, roi_rect.y, canvas_image.h, display_pixmap.h)
        /\ IsNearest(roi_scaled.w, roi_rect.w, canvas_image.w, display_pixmap.w)
        /\ IsNearest(roi_scaled.h, roi_rect.h, canvas_image.h, display_pixmap.h)

\* C2 amended: before clamping, each coordinate is the scaled value truncated
\* toward zero (Python's int()), not rounded.
C2_TruncatesTowardZero ==
    roi_scaled # NoneVal =>
        /\ IsTruncation(roi_scaled.x, roi_rect.x, canvas_image.w, display_pixmap.w)
        /\ IsTruncation(roi_scaled.y, roi_rect.y, canvas_image.h, display_pixmap.h)
        /\ IsTruncation(roi_scaled.w, roi_rect.w, canvas_image.w, display_pixmap.w)
        /\ IsTruncation(roi_scaled.h, roi_rect.h, canvas_image.h, display_pixmap.h)

\* a negative x whose scaled value is no integer, and a width whose scaled
\* value has a fraction above one half, have been scaled
C2_Witness ==
    /\ roi_scaled # NoneVal
    /\ roi_rect.x < 0
    /\ (roi_rect.x * canvas_image.w) % display_pixmap.w # 0
    /\ 2 * ((roi_rect.w * canvas_image.w) % display_pixmap.w) > display_pixmap.w

\* C3 as claimed: with a selection and an image present, a display size with a
\* zero width or height makes the mapping fail with InvalidArgument
\* (Python: ValueError) and with no other failure.
C3_ZeroDisplayIsInvalidArgument ==
    (/\ roi_result # NoCall
     /\ roi_rect # NoneVal /\ canvas_image # NoneVal /\ display_pixmap # NoneVal
     /\ (display_pixmap.w = 0 \/ display_pixmap.h = 0))
        => /\ roi_result.kind = "raise"
           /\ roi_result.exc \in {"InvalidArgument", "ValueError"}

\* the selection is the whole display: x = 0, y = 0, the pixmap's width and height
FullDisplay ==
    /\ roi_rect # NoneVal /\ display_pixmap # NoneVal
    /\ roi_rect = [x |-> 0, y |-> 0, w |-> display_pixmap.w, h |-> display_pixmap.h]

\* C13: the full-display rectangle maps to x' = 0, y' = 0 and to a width and
\* height within 1 pixel of the source's, for all display and source sizes >= 1.
C13_FullDisplayMapsToFullSource ==
    (Mapped /\ FullDisplay) =>
        /\ roi_result.val.x = 0 /\ roi_result.val.y = 0
        /\ Abs(roi_result.val.w - canvas_image.w) <= 1
        /\ Abs(roi_result.val.h - canvas_image.h) <= 1

\* the whole of a 1-wide, MaxDisp-high display has been mapped onto a source
\* that is wider and lower
C13_Witness ==
    /\ Mapped /\ FullDisplay
    /\ display_pixmap.w = 1 /\ canvas_image.w > 2
    /\ display_pixmap.h = MaxDisp /\ canvas_image.h < display_pixmap.h

----------------------------------------------------------------------------
(* Properties of single ocr_utils calls, under SpecOcr *)

Called(name) == call # NoCall /\ call.op = name /\ result # NoCall

\* C4 as claimed: preprocess on a non-empty image with a mode outside the four
\* known ones fails with an InvalidArgument error and returns no image.
C4_UnknownModeFails ==
    (Called("preprocess_image") /\ ~IsEmpty(call.image) /\ call.mode \notin Modes)
        => result.kind = "raise"

ZeroAreaCrop ==
    /\ Called("extract_text_from_roi")
    /\ call.image # NoneVal
    /\ Crop(call.image, call.roi).h * Crop(call.image, call.roi).w = 0

\* C5 as claimed: extract_text_from_roi with a zero-area crop fails with
\* InvalidArgument, unlike the empty string of "no text found", and does not
\* invoke the engine.
C5_ZeroAreaRoiIsInvalidArgument ==
    ZeroAreaCrop => (result.kind = "raise" /\ engine = NoCall)

\* the indices of the engine's candidates with a confidence above 0
Confident(data) == {i \in 1..Len(data) : data[i].conf > 0}

\* the engine answered a call of get_text_boxes on a non-empty image
BoxesAnswered ==
    Called("get_text_boxes") /\ ~IsEmpty(call.image) /\ call.out.kind = "return"

\* C7: get_text_boxes returns exactly the candidates with confidence > 0, each
\* once and in the engine's order: the k-th confident candidate is the k-th
\* detection.
C7_KeepsExactlyConfidentInOrder ==
    BoxesAnswered =>
        LET data == call.out.val
            got == result.val
        IN  /\ result.kind = "return"
            /\ Len(got) = Cardinality(Confident(data))
            /\ \A i \in Confident(data) :
                 LET k == Cardinality({j \in Confident(data) : j <= i})
                 IN  /\ got[k][5] = data[i].conf
                     /\ got[k][1] = data[i].left /\ got[k][2] = data[i].top
                     /\ got[k][3] = data[i].width /\ got[k][4] = data[i].height
            /\ \A k \in 1..Len(got) : got[k][5] > 0

\* the engine gave confidences -1, 0, 5, 90 and two detections came back, with
\* confidences 5 and 90
C7_Witness ==
    /\ BoxesAnswered
    /\ Len(call.out.val) = 4
    /\ [i \in 1..4 |-> call.out.val[i].conf] = <<-1, 0, 5, 90>>
    /\ Len(result.val) = 2
    /\ result.val[1][5] = 5 /\ result.val[2][5] = 90

\* C8 as claimed: when the engine fails during get_text_boxes, what the caller
\* receives differs from the successful result "no detections".
C8_EngineFailureIsSignalled ==
    (Called("get_text_boxes") /\ ~IsEmpty(call.image) /\ call.out.kind = "raise")
        => result # Return(<<>>)

\* C10 as claimed: every detection carries six fields, the sixth being the
\* recognized text of its candidate.
C10_DetectionCarriesText ==
    BoxesAnswered =>
        \A k \in 1..Len(result.val) :
            /\ Len(result.val[k]) = 6
            /\ \E i \in 1..Len(call.out.val) : result.val[k][6] = call.out.val[i].text

\* C10 amended: every detection is the 5-tuple (x, y, width, height,
\* confidence) of one of the engine's candidates; the text is not carried.
C10_DetectionIsBoxAndConfidence ==
    BoxesAnswered =>
        \A k \in 1..Len(result.val) :
            /\ Len(result.val[k]) = 5
            /\ \E i \in 1..Len(call.out.val) :
                 LET c == call.out.val[i]
                 IN  result.val[k] = <<c.left, c.top, c.width, c.height, c.conf>>

\* a candidate with text and a box whose x and y differ came back as a detection
C10_Witness ==
    /\ BoxesAnswered
    /\ Len(call.out.val) = 1
    /\ call.out.val[1].text # <<>>
    /\ call.out.val[1].left # call.out.val[1].top
    /\ Len(result.val) = 1

\* C12: in Grayscale and Adaptive Threshold modes the result of
\* preprocess_image is the same for every threshold in 0..255.
C12_ThresholdIgnored ==
    (Called("preprocess_image") /\ call.mode \in {"Grayscale", "Adaptive Threshold"})
        => \A t \in 0..255 : PreprocessImage(call.image, call.mode, t) = result

\* a non-empty image has been preprocessed in Adaptive Threshold mode with a
\* threshold other than the default
C12_Witness ==
    /\ Called("preprocess_image")
    /\ call.mode = "Adaptive Threshold"
    /\ ~IsEmpty(call.image)
    /\ call.threshold = 255
    /\ result.kind = "return"

----------------------------------------------------------------------------
(* Properties of sequences of ocr_utils calls, under SpecSeq *)

\* a call on an absent or zero-area image leaves the engine alone and
\* returns the empty string / the empty list
EmptyImageStep ==
    (/\ call'.op \in {"extract_text_with_boxes", "get_text_boxes", "full_image_path"}
     /\ IsEmpty(call'.image))
        => /\ engine_calls' = engine_calls
           /\ engine' = NoCall
           /\ result' = Return(<<>>)

\* C6: across any sequence of calls, no call of extract_text_with_boxes,
\* get_text_boxes or the full-image path on an absent or zero-area image
\* invokes the engine; each returns the empty string / the empty list.
C6_EmptyImageNeverReachesEngine == [][EmptyImageStep]_vars

\* calls on absent images have been made, the last one with an engine that
\* would have answered, and the engine's count is still zero
C6_Witness ==
    /\ Called("full_image_path")
    /\ call.image = NoneVal
    /\ call.out.kind = "return" /\ call.out.val # <<>>
    /\ result = Return(<<>>)
    /\ engine_calls = 0

\* C9: a failure of the engine inside extract_text_with_boxes or
\* get_text_boxes does not leave the function: the call returns a value, and
\* the next operation can be made.
C9_EngineFailureIsContained ==
    (call # NoCall /\ call.op \in {"extract_text_with_boxes", "get_text_boxes"})
        => /\ result.kind = "return"
           /\ engine_calls < MaxCalls => ENABLED NextSeq

\* in a sequence of calls the engine has failed on its MaxCalls-th invocation,
\* made by get_text_boxes, and the call has returned
C9_Witness ==
    /\ Called("get_text_boxes")
    /\ engine # NoCall
    /\ call.out.kind = "raise"
    /\ result.kind = "return"
    /\ engine_calls = MaxCalls

====
